---- MODULE Spec2Model ----
(***************************************************************************)
(* Model of app.py, the Streamlit script of the AMR burden prediction      *)
(* tool: one run of the script (asset loading, upload validation, scaling, *)
(* prediction, the per-sample loop and the batch export) and its pure      *)
(* helpers risk_category, compute_sample_mechanisms and interpret.         *)
(*                                                                         *)
(* Representation.                                                         *)
(*  - A Python str is a sequence of one-character strings, so that         *)
(*    str.lower, str.strip and the "in" substring test are computed.  The  *)
(*    two non-ASCII characters the code tests are written "u03B2" (Greek   *)
(*    small beta) and "u0392" (Greek capital beta).                        *)
(*  - A proportion round(x, 3) is an integer number of thousandths.        *)
(*  - A burden score is <<whole, frac>>: whole + frac / FracUnits with     *)
(*    0 <= frac < FracUnits, i.e. four decimals (whole is the floor).      *)
(*  - A dict is a sequence of entries in insertion order.                  *)
(*                                                                         *)
(* The scaler and the regression model are opaque artifacts: a call either *)
(* raises or returns, and predict returns any score of RunScores per row.  *)
(* Left out: page styling and static markdown, the sorted mechanism table  *)
(* and the chart of a sample (lines 344-388), which read mech_profile and  *)
(* write nothing the rest of the run uses, and the contents of X_scaled.   *)
(***************************************************************************)
EXTENDS Integers, Sequences, FiniteSets

VARIABLES
    pc,             \* position of the script run
    model,          \* load_assets()[0]: "model" or "None"
    gene_info,      \* load_assets()[2]: the catalog table, or NoTable
    uploaded_file,  \* the upload offered to this run, or NoTable
    df,             \* the parsed (then projected) table, or NoTable
    scores,         \* model.predict's result, a sequence of scores
    i,              \* index of the per-sample / batch loop
    all_results,    \* the batch export's list of records
    screen,         \* everything the run has emitted, in order
    invoked,        \* which of scaler.transform / model.predict were called
    score,          \* argument of a stand-alone risk_category call
    prev,           \* the preceding stand-alone calls: sequence of [score, category]
    category,       \* its result
    sample,         \* argument of compute_sample_mechanisms: <<gene, value>> items
    mech_profile,   \* a mechanism profile: sequence of [mech, p]
    interpretation  \* result of interpret(mech_profile)

vars == <<pc, model, gene_info, uploaded_file, df, scores, i, all_results, screen,
          invoked, score, prev, category, sample, mech_profile, interpretation>>

runVars == <<model, gene_info, uploaded_file, df, scores, i, all_results, screen, invoked>>
fnVars == <<score, prev, category, sample, mech_profile, interpretation>>

\* Python None: for a str-valued name, and for a table-valued name
None == "None"
NoTable == [none |-> TRUE]

----------------------------------------------------------------------------
(* Python str operations *)

UpperCase == <<"A", "B", "C", "D", "E", "F", "G", "H", "I", "J", "K", "L", "M",
               "N", "O", "P", "Q", "R", "S", "T", "U", "V", "W", "X", "Y", "Z">>
LowerCase == <<"a", "b", "c", "d", "e", "f", "g", "h", "i", "j", "k", "l", "m",
               "n", "o", "p", "q", "r", "s", "t", "u", "v", "w", "x", "y", "z">>

\* one character of str.lower()
LowerChar(c) ==
    IF \E k \in 1..Len(UpperCase) : UpperCase[k] = c
    THEN LowerCase[CHOOSE k \in 1..Len(UpperCase) : UpperCase[k] = c]
    ELSE IF c = "u0392" THEN "u03B2" ELSE c

\* s.lower()
Lower(s) == [k \in 1..Len(s) |-> LowerChar(s[k])]

\* sub in s
Contains(sub, s) ==
    \E k \in 1..(Len(s) - Len(sub) + 1) : SubSeq(s, k, k + Len(sub) - 1) = sub

\* s.strip(), the blank being the only white space of the labels
RECURSIVE Strip(_)
Strip(s) ==
    IF s = <<>> THEN s
    ELSE IF Head(s) = " " THEN Strip(Tail(s))
    ELSE IF s[Len(s)] = " " THEN Strip(SubSeq(s, 1, Len(s) - 1))
    ELSE s

----------------------------------------------------------------------------
(* load_assets: the mechanism-label normalisation *)

\* the canonical label, and the keys of replace_dict
NonSpecificResistance ==
    <<"N", "o", "n", "-", "S", "p", "e", "c", "i", "f", "i", "c",
      " ", "R", "e", "s", "i", "s", "t", "a", "n", "c", "e">>
Key_OtherSpSlashSpUnclassified ==
    <<"O", "t", "h", "e", "r", " ", "/", " ", "U", "n", "c", "l",
      "a", "s", "s", "i", "f", "i", "e", "d">>
Key_OtherSlashUnclassified ==
    <<"O", "t", "h", "e", "r", "/", "U", "n", "c", "l", "a", "s",
      "s", "i", "f", "i", "e", "d">>
Key_OtherSpSlashUnclassified ==
    <<"O", "t", "h", "e", "r", " ", "/", "U", "n", "c", "l", "a",
      "s", "s", "i", "f", "i", "e", "d">>
Key_OtherSlashSpUnclassified ==
    <<"O", "t", "h", "e", "r", "/", " ", "U", "n", "c", "l", "a",
      "s", "s", "i", "f", "i", "e", "d">>
Key_generalSlashUnknown ==
    <<"g", "e", "n", "e", "r", "a", "l", "/", "U", "n", "k", "n",
      "o", "w", "n">>
Key_generalSpSlashSpUnknown ==
    <<"g", "e", "n", "e", "r", "a", "l", " ", "/", " ", "U", "n",
      "k", "n", "o", "w", "n">>
Key_Other == <<"O", "t", "h", "e", "r">>
Key_Unclassified == <<"U", "n", "c", "l", "a", "s", "s", "i", "f", "i", "e", "d">>
Key_Unknown == <<"U", "n", "k", "n", "o", "w", "n">>
Key_Nonspecific == <<"N", "o", "n", "-", "s", "p", "e", "c", "i", "f", "i", "c">>
Key_nonspecific == <<"n", "o", "n", "-", "s", "p", "e", "c", "i", "f", "i", "c">>
\* the words final_cleanup looks for (line 159)
Word_other == <<"o", "t", "h", "e", "r">>
Word_unclassified == <<"u", "n", "c", "l", "a", "s", "s", "i", "f", "i", "e", "d">>
Word_unknown == <<"u", "n", "k", "n", "o", "w", "n">>
Word_nonspecific == <<"n", "o", "n", "-", "s", "p", "e", "c", "i", "f", "i", "c">>
Word_general == <<"g", "e", "n", "e", "r", "a", "l">>

\* the substrings interpret looks for (lines 228, 230)
Sub_betaSymLactamase == <<"u03B2", "-", "l", "a", "c", "t", "a", "m", "a", "s", "e">>
Sub_betaLactamase == <<"b", "e", "t", "a", "-", "l", "a", "c", "t", "a", "m", "a", "s", "e">>
Sub_efflux == <<"e", "f", "f", "l", "u", "x">>

\* mechanism labels as a catalog source may spell them
Mech_Efflux == <<"E", "f", "f", "l", "u", "x">>
Mech_Other == <<"O", "t", "h", "e", "r">>
Mech_BetaSymLactamaseCap == <<"u03B2", "-", "L", "a", "c", "t", "a", "m", "a", "s", "e">>
Mech_BetaSymLactamase == <<"u03B2", "-", "l", "a", "c", "t", "a", "m", "a", "s", "e">>
Mech_BetaLactamaseWord == <<"B", "e", "t", "a", "-", "L", "a", "c", "t", "a", "m", "a", "s", "e">>
Mech_TargetAlteration ==
    <<"T", "a", "r", "g", "e", "t", " ", "a", "l", "t", "e", "r",
      "a", "t", "i", "o", "n">>
Mech_Inactivation == <<"I", "n", "a", "c", "t", "i", "v", "a", "t", "i", "o", "n">>
Mech_GeneralEfflux ==
    <<" ", "G", "e", "n", "e", "r", "a", "l", " ", "e", "f", "f",
      "l", "u", "x", " ">>
Mech_NonSpecificEfflux ==
    <<"N", "o", "n", "-", "s", "p", "e", "c", "i", "f", "i", "c",
      " ", "e", "f", "f", "l", "u", "x">>
Mech_CapBetaLactamase == <<"u0392", "-", "L", "A", "C", "T", "A", "M", "A", "S", "E">>

\* replace_dict (lines 138-150), in key order
replace_dict ==
    << <<Key_OtherSpSlashSpUnclassified, NonSpecificResistance>>,
       <<Key_OtherSlashUnclassified, NonSpecificResistance>>,
       <<Key_OtherSpSlashUnclassified, NonSpecificResistance>>,
       <<Key_OtherSlashSpUnclassified, NonSpecificResistance>>,
       <<Key_generalSlashUnknown, NonSpecificResistance>>,
       <<Key_generalSpSlashSpUnknown, NonSpecificResistance>>,
       <<Key_Other, NonSpecificResistance>>,
       <<Key_Unclassified, NonSpecificResistance>>,
       <<Key_Unknown, NonSpecificResistance>>,
       <<Key_Nonspecific, NonSpecificResistance>>,
       <<Key_nonspecific, NonSpecificResistance>> >>

\* Series.replace(replace_dict) on one cell: a whole-value match, else unchanged
Replace(mechanism) ==
    IF \E k \in 1..Len(replace_dict) : replace_dict[k][1] = mechanism
    THEN replace_dict[CHOOSE k \in 1..Len(replace_dict) : replace_dict[k][1] = mechanism][2]
    ELSE mechanism

CleanupWords == {Word_other, Word_unclassified, Word_unknown, Word_nonspecific, Word_general}

final_cleanup(mechanism) ==
    LET mech == Strip(mechanism)
    IN  IF \E word \in CleanupWords : Contains(word, Lower(mech))
        THEN NonSpecificResistance
        ELSE mech

\* the two assignments to gene_info["Resistance_Mechanism"] (lines 153, 163)
Normalise(rows) ==
    [k \in 1..Len(rows) |->
        [AMR_Gene |-> rows[k].AMR_Gene,
         Resistance_Mechanism |-> final_cleanup(Replace(rows[k].Resistance_Mechanism))]]

----------------------------------------------------------------------------
(* Module-level catalog globals *)

TOP_GENES == [k \in 1..Len(gene_info.rows) |-> gene_info.rows[k].AMR_Gene]

\* dict(zip(genes, mechanisms)): a later row of the same gene overwrites
GENE_TO_MECH ==
    LET rows == gene_info.rows
        genes == {rows[k].AMR_Gene : k \in 1..Len(rows)}
        last(g) == CHOOSE k \in 1..Len(rows) :
                      /\ rows[k].AMR_Gene = g
                      /\ \A j \in (k + 1)..Len(rows) : rows[j].AMR_Gene # g
    IN  [g \in genes |-> rows[last(g)].Resistance_Mechanism]

----------------------------------------------------------------------------
(* dict helpers: a dict is a sequence of <<key, value>> in insertion order *)

Keys(d) == {d[k][1] : k \in 1..Len(d)}

\* d.get(key, default)
DictGet(d, key, default) ==
    IF key \in Keys(d) THEN d[CHOOSE k \in 1..Len(d) : d[k][1] = key][2] ELSE default

\* d[key] = value
DictSet(d, key, value) ==
    IF key \in Keys(d)
    THEN [k \in 1..Len(d) |-> IF d[k][1] = key THEN <<key, value>> ELSE d[k]]
    ELSE Append(d, <<key, value>>)

RECURSIVE SumValues(_)
SumValues(d) == IF d = <<>> THEN 0 ELSE d[1][2] + SumValues(Tail(d))

----------------------------------------------------------------------------
(* Helper functions *)

ThresholdModerate == 3000000
ThresholdHigh == 5000000
FracUnits == 10 * 1000

\* score <= k for an integer k
ScoreLessOrEqual(s, k) == s[1] < k \/ (s[1] = k /\ s[2] = 0)

\* score < k for an integer k: whole is the floor of the score
ScoreLess(s, k) == s[1] < k

risk_category(s) ==
    IF ScoreLess(s, ThresholdModerate) THEN "Low"
    ELSE IF ScoreLess(s, ThresholdHigh) THEN "Moderate"
    ELSE "High"

get_risk_color(c) ==
    IF c = "Low" THEN "risk-low"
    ELSE IF c = "Moderate" THEN "risk-moderate"
    ELSE "risk-high"

\* a / b to the nearest integer, a tie to even (b > 0).  Python's round works
\* on the double nearest to a / b; for the values drawn below no quotient is
\* a tie that a double cannot hold, so both agree.
RoundDiv(a, b) ==
    LET q == a \div b
        r == a % b
    IN  IF 2 * r < b THEN q
        ELSE IF 2 * r > b THEN q + 1
        ELSE IF q % 2 = 0 THEN q ELSE q + 1

\* v / total cut, not rounded, to 3 decimals
Truncate3(v, total) == (1000 * v) \div total

\* round(v / total, 3) in thousandths, total > 0
Round3(v, total) == RoundDiv(1000 * v, total)

\* round(score, 3): <<whole, thousandths>>
RoundScore3(s) ==
    LET t == Round3(s[2], FracUnits)
    IN  IF t = 1000 THEN <<s[1] + 1, 0>> ELSE <<s[1], t>>

\* the for loop of compute_sample_mechanisms (lines 200-202)
RECURSIVE Accumulate(_, _)
Accumulate(items, mech_scores) ==
    IF items = <<>> THEN mech_scores
    ELSE LET gene == items[1][1]
             value == items[1][2]
             mech == IF gene \in DOMAIN GENE_TO_MECH
                     THEN GENE_TO_MECH[gene]
                     ELSE NonSpecificResistance
         IN  Accumulate(Tail(items),
                        DictSet(mech_scores, mech, DictGet(mech_scores, mech, 0) + value))

RECURSIVE MaxValue(_)
MaxValue(d) ==
    IF Len(d) = 1 THEN d[1][2]
    ELSE LET m == MaxValue(Tail(d)) IN IF d[1][2] > m THEN d[1][2] ELSE m

\* the proportions taken of the largest bucket instead of the total
ShareOfLargest(items) ==
    LET mech_scores == Accumulate(items, <<>>)
        total == SumValues(mech_scores)
    IN  IF total > 0
        THEN [k \in 1..Len(mech_scores) |->
                 <<mech_scores[k][1], Round3(mech_scores[k][2], MaxValue(mech_scores))>>]
        ELSE [k \in 1..Len(mech_scores) |-> <<mech_scores[k][1], 0>>]

compute_sample_mechanisms(items) ==
    LET mech_scores == Accumulate(items, <<>>)
        total == SumValues(mech_scores)
    IN  IF total > 0
        THEN [k \in 1..Len(mech_scores) |->
                 <<mech_scores[k][1], Round3(mech_scores[k][2], total)>>]
        ELSE [k \in 1..Len(mech_scores) |-> <<mech_scores[k][1], 0>>]

DominantMin == 300

MsgNone == "No significant resistance mechanisms detected"
MsgMultiple == "Multiple resistance mechanisms contributing equally"
MsgNonSpecific ==
    "Resistance is dominated by Non-Specific Resistance mechanisms with indirect AMR contribution"
MsgBetaLactamase == "beta-lactamase-mediated resistance is prominent"
MsgEfflux == "Efflux-based multidrug resistance likely"
MsgMixed == "Mixed resistance mechanisms observed"

\* max(mech_profile, key=mech_profile.get): the first key with the largest value
Dominant(profile) ==
    CHOOSE k \in 1..Len(profile) :
        /\ \A j \in 1..Len(profile) : profile[j][2] <= profile[k][2]
        /\ \A j \in 1..(k - 1) : profile[j][2] < profile[k][2]

interpret(profile) ==
    IF profile = <<>> THEN MsgNone
    ELSE LET dominant == profile[Dominant(profile)][1]
             dominant_percentage == profile[Dominant(profile)][2]
             dominant_lower == Lower(dominant)
         IN  IF dominant_percentage < DominantMin THEN MsgMultiple
             ELSE IF Contains(Word_nonspecific, dominant_lower) THEN MsgNonSpecific
             ELSE IF \/ Contains(Sub_betaSymLactamase, dominant)
                     \/ Contains(Sub_betaLactamase, dominant_lower) THEN MsgBetaLactamase
             ELSE IF Contains(Sub_efflux, dominant_lower) THEN MsgEfflux
             ELSE MsgMixed

----------------------------------------------------------------------------
(* Inputs of a script run *)

MaxRows == 2

\* catalog sources: the columns top50_shap_genes_annotated.csv has, and its rows
CatalogRow(g, m) == [AMR_Gene |-> g, Resistance_Mechanism |-> m]
BothColumns == {"AMR_Gene", "Resistance_Mechanism"}
CatScenario ==
    [cols |-> BothColumns,
     rows |-> <<CatalogRow("g1", Mech_Efflux), CatalogRow("g2", Mech_Other)>>]
CatDuplicate ==
    [cols |-> BothColumns,
     rows |-> <<CatalogRow("g1", Mech_Efflux), CatalogRow("g1", Mech_BetaSymLactamaseCap)>>]
CatNoMechanismColumn == [cols |-> {"AMR_Gene"}, rows |-> CatScenario.rows]
CatNoGeneColumn == [cols |-> {"Resistance_Mechanism"}, rows |-> CatScenario.rows]
CatalogSources == {CatScenario, CatDuplicate, CatNoMechanismColumn, CatNoGeneColumn}

\* uploads: a CSV that does not parse, or a table
Unparsable == [unparsable |-> TRUE]
SampleIds == {"s1", "s2"}
RunValues == {0, 80}
ColumnLists == {<<"g1">>, <<"g2", "g1">>, <<"g1", "g2", "g3">>}
\* the tables of n rows with the columns cols
Tables(n, cols) ==
    { [columns |-> cols, index |-> ids, values |-> vals] :
        ids \in [1..n -> SampleIds],
        vals \in [1..n -> [1..Len(cols) -> RunValues]] }

\* what the frozen model can return for one row
RunScores == {<<ThresholdModerate - 1, 9996>>, <<ThresholdModerate, 0>>, <<ThresholdHigh, 0>>}

----------------------------------------------------------------------------
(* DataFrame operations *)

ColumnSet(t) == {t.columns[k] : k \in 1..Len(t.columns)}

ColumnOf(t, g) == CHOOSE k \in 1..Len(t.columns) : t.columns[k] = g

\* df[TOP_GENES]: the catalog's columns in the catalog's order
Project(t) ==
    [columns |-> TOP_GENES,
     index |-> t.index,
     values |-> [r \in 1..Len(t.index) |->
                    [k \in 1..Len(TOP_GENES) |-> t.values[r][ColumnOf(t, TOP_GENES[k])]]]]

\* df.loc[sample_id] is a Series only when the label occurs once in the index
UniqueLabel(t, id) == Cardinality({r \in 1..Len(t.index) : t.index[r] = id}) = 1

\* (df.loc[sample_id]).items() for the row at position r
Items(t, r) == [k \in 1..Len(t.columns) |-> <<t.columns[k], t.values[r][k]>>]

RECURSIVE SumWhole(_)
SumWhole(ss) == IF ss = <<>> THEN 0 ELSE ss[1][1] + SumWhole(Tail(ss))
RECURSIVE SumFrac(_)
SumFrac(ss) == IF ss = <<>> THEN 0 ELSE ss[1][2] + SumFrac(Tail(ss))

\* f"{np.mean(scores):,.0f}": the mean to the nearest integer
AvgScore(ss) ==
    LET n == Len(ss)
        w == SumWhole(ss) + (SumFrac(ss) \div FracUnits)
        f == SumFrac(ss) % FracUnits
    IN  (w \div n) + RoundDiv((w % n) * FracUnits + f, n * FracUnits)

Emit(kind, data) == screen' = Append(screen, [kind |-> kind, data |-> data])

\* the except handler (lines 452-454); the footer follows
Handler(e) ==
    /\ screen' = screen \o << [kind |-> "error", data |-> <<"Error processing file", e>>],
                              [kind |-> "info", data |-> "Please check your file format and try again."] >>
    /\ pc' = "error"

----------------------------------------------------------------------------
(* The script run *)

Init ==
    /\ pc = "load"
    /\ model = None
    /\ gene_info = NoTable
    /\ uploaded_file = NoTable
    /\ df = NoTable
    /\ scores = <<>>
    /\ i = 0
    /\ all_results = <<>>
    /\ screen = <<>>
    /\ invoked = {}
    /\ score = <<0, 0>>
    /\ prev = <<>>
    /\ category = None
    /\ sample = <<>>
    /\ mech_profile = <<>>
    /\ interpretation = None

MODEL_PATH == "huber_amr_model.pkl"
SCALER_PATH == "scaler_top50.pkl"
GENE_INFO_PATH == "top50_shap_genes_annotated.csv"

\* load_assets succeeds: both pickles load and the catalog has its mechanism column
LoadAssets ==
    /\ pc = "load"
    /\ \E src \in CatalogSources :
          /\ "Resistance_Mechanism" \in src.cols
          /\ gene_info' = [cols |-> src.cols, rows |-> Normalise(src.rows)]
    /\ model' = "model"
    /\ pc' = "check_model"
    /\ UNCHANGED <<uploaded_file, df, scores, i, all_results, screen, invoked, fnVars>>

\* load_assets fails: joblib.load or read_csv raises, or the mechanism column is missing
LoadAssetsFails ==
    /\ pc = "load"
    /\ \E cause \in {MODEL_PATH, SCALER_PATH, GENE_INFO_PATH} \cup
                    {"Resistance_Mechanism" : src \in {s \in CatalogSources :
                                                          "Resistance_Mechanism" \notin s.cols}} :
          Emit("error", <<"Error loading model assets", cause>>)
    /\ model' = None
    /\ gene_info' = NoTable
    /\ pc' = "check_model"
    /\ UNCHANGED <<uploaded_file, df, scores, i, all_results, invoked, fnVars>>

\* the script going on without the st.stop() of line 173
ContinueWithoutModel ==
    /\ pc = "check_model"
    /\ model = None
    /\ pc' = "upload"
    /\ UNCHANGED <<runVars, fnVars>>

\* if model is None: st.stop()
StopWithoutModel ==
    /\ pc = "check_model"
    /\ model = None
    /\ pc' = "stopped"
    /\ UNCHANGED <<runVars, fnVars>>

\* TOP_GENES / GENE_TO_MECH (lines 175-179); KeyError without the gene column
CatalogGlobals ==
    /\ pc = "check_model"
    /\ model # None
    /\ pc' = IF "AMR_Gene" \in gene_info.cols THEN "upload" ELSE "crashed"
    /\ UNCHANGED <<runVars, fnVars>>

\* st.file_uploader returns nothing: the try block is skipped
NoUpload ==
    /\ pc = "upload"
    /\ pc' = "done"
    /\ UNCHANGED <<runVars, fnVars>>

\* pd.read_csv(uploaded_file, index_col=0)
ReadCsv ==
    /\ pc = "upload"
    /\ \E n \in 1..MaxRows, cols \in ColumnLists :
          \E t \in Tables(n, cols) :
             /\ uploaded_file' = t
             /\ df' = t
    /\ pc' = "validate"
    /\ UNCHANGED <<model, gene_info, scores, i, all_results, screen, invoked, fnVars>>

ReadCsvRaises ==
    /\ pc = "upload"
    /\ uploaded_file' = Unparsable
    /\ Handler("ParserError")
    /\ UNCHANGED <<model, gene_info, df, scores, i, all_results, invoked, fnVars>>

TopGeneSet == {TOP_GENES[k] : k \in 1..Len(TOP_GENES)}

\* set(TOP_GENES) - set(df.columns)
Missing(t) == TopGeneSet \ ColumnSet(t)

\* the missing-gene check without its st.stop()
ValidateNoStop ==
    /\ pc = "validate"
    /\ pc' = "scale"
    /\ UNCHANGED <<runVars, fnVars>>

\* the missing-gene check (lines 273-292)
Validate ==
    /\ pc = "validate"
    /\ LET missing == Missing(df)
       IN  IF missing # {}
           THEN /\ screen' = screen \o
                      << [kind |-> "error", data |-> <<"Missing required genes", Cardinality(missing)>>],
                         [kind |-> "info", data |-> missing],
                         [kind |-> "write", data |-> [Found |-> Cardinality(TopGeneSet \cap ColumnSet(df)),
                                                     Missing |-> Cardinality(missing)]],
                         [kind |-> "download", data |-> TOP_GENES] >>
                /\ pc' = "stopped"
           ELSE /\ pc' = "scale"
                /\ UNCHANGED screen
    /\ UNCHANGED <<model, gene_info, uploaded_file, df, scores, i, all_results, invoked, fnVars>>

\* df = df[TOP_GENES]; X_scaled = scaler.transform(df)
Scale ==
    /\ pc = "scale"
    /\ Missing(df) = {}
    /\ df' = Project(df)
    /\ invoked' = invoked \cup {"transform"}
    /\ pc' = "predict"
    /\ UNCHANGED <<model, gene_info, uploaded_file, scores, i, all_results, screen, fnVars>>

\* df[TOP_GENES] raises KeyError on a missing column; the scaler is opaque and may raise
ScaleRaises ==
    /\ pc = "scale"
    /\ IF Missing(df) # {}
       THEN /\ Handler("KeyError")
            /\ UNCHANGED <<df, invoked>>
       ELSE /\ Handler("ValueError")
            /\ df' = Project(df)
            /\ invoked' = invoked \cup {"transform"}
    /\ UNCHANGED <<model, gene_info, uploaded_file, scores, i, all_results, fnVars>>

\* scores = model.predict(X_scaled): one score per row
Predict ==
    /\ pc = "predict"
    /\ scores' \in [1..Len(df.index) -> RunScores]
    /\ invoked' = invoked \cup {"predict"}
    /\ pc' = "summary"
    /\ UNCHANGED <<model, gene_info, uploaded_file, df, i, all_results, screen, fnVars>>

PredictRaises ==
    /\ pc = "predict"
    /\ invoked' = invoked \cup {"predict"}
    /\ Handler("ValueError")
    /\ UNCHANGED <<model, gene_info, uploaded_file, df, scores, i, all_results, fnVars>>

\* st.success and the three summary metrics (lines 300-311)
Summary ==
    /\ pc = "summary"
    /\ screen' = screen \o
          << [kind |-> "success", data |-> Len(df.index)],
             [kind |-> "metrics",
              data |-> [Samples |-> Len(df.index),
                        Average |-> AvgScore(scores),
                        HighRisk |-> Cardinality({r \in 1..Len(scores) :
                                                     risk_category(scores[r]) = "High"})]] >>
    /\ i' = 1
    /\ pc' = "samples"
    /\ UNCHANGED <<model, gene_info, uploaded_file, df, scores, all_results, invoked, fnVars>>

\* the sample_id's row as compute_sample_mechanisms receives it
Row(r) == Items(df, r)

\* df.loc[sample_id] is a DataFrame for a repeated label: "if total > 0" raises ValueError
LocRaises(r) == ~UniqueLabel(df, df.index[r]) /\ Len(df.columns) > 0

\* one iteration of the per-sample loop (lines 318-411)
SampleStep ==
    /\ pc = "samples"
    /\ i <= Len(df.index)
    /\ ~LocRaises(i)
    /\ LET sample_id == df.index[i]
           sample_score == scores[i]
           risk_cat == risk_category(sample_score)
           profile == compute_sample_mechanisms(Row(i))
           output == [Sample_ID |-> sample_id,
                      AMR_Risk_Score |-> RoundScore3(sample_score),
                      Risk_Category |-> risk_cat,
                      Resistance_Mechanism_Profile |-> profile,
                      Interpretation |-> interpret(profile)]
       IN  screen' = screen \o
              << [kind |-> "sample",
                  data |-> [Sample_ID |-> sample_id,
                            Score |-> sample_score,
                            Risk_Category |-> risk_cat,
                            Class |-> get_risk_color(risk_cat),
                            Interpretation |-> interpret(profile),
                            Profile |-> profile]],
                 [kind |-> "json", data |-> output] >>
    /\ i' = i + 1
    /\ UNCHANGED <<pc, model, gene_info, uploaded_file, df, scores, all_results, invoked, fnVars>>

SampleStepRaises ==
    /\ pc = "samples"
    /\ i <= Len(df.index)
    /\ LocRaises(i)
    /\ Handler("ValueError")
    /\ UNCHANGED <<model, gene_info, uploaded_file, df, scores, i, all_results, invoked, fnVars>>

\* the per-sample loop is exhausted: all_results = []
StartBatch ==
    /\ pc = "samples"
    /\ i > Len(df.index)
    /\ all_results' = <<>>
    /\ i' = 1
    /\ pc' = "batch"
    /\ UNCHANGED <<model, gene_info, uploaded_file, df, scores, screen, invoked, fnVars>>

\* one iteration of the batch loop (lines 418-426)
BatchStep ==
    /\ pc = "batch"
    /\ i <= Len(df.index)
    /\ IF LocRaises(i)
       THEN /\ Handler("ValueError")
            /\ UNCHANGED <<i, all_results>>
       ELSE /\ LET profile == compute_sample_mechanisms(Row(i))
               IN  all_results' = Append(all_results,
                      [Sample_ID |-> df.index[i],
                       AMR_Risk_Score |-> RoundScore3(scores[i]),
                       Risk_Category |-> risk_category(scores[i]),
                       Resistance_Mechanism_Profile |-> profile,
                       Interpretation |-> interpret(profile)])
            /\ i' = i + 1
            /\ UNCHANGED <<pc, screen>>
    /\ UNCHANGED <<model, gene_info, uploaded_file, df, scores, invoked, fnVars>>

\* the CSV and JSON exports of all_results (lines 429-450)
Export ==
    /\ pc = "batch"
    /\ i > Len(df.index)
    /\ Emit("batch", all_results)
    /\ pc' = "done"
    /\ UNCHANGED <<model, gene_info, uploaded_file, df, scores, i, all_results, invoked, fnVars>>

Next ==
    \/ LoadAssets
    \/ LoadAssetsFails
    \/ StopWithoutModel
    \/ CatalogGlobals
    \/ NoUpload
    \/ ReadCsv
    \/ ReadCsvRaises
    \/ Validate
    \/ Scale
    \/ ScaleRaises
    \/ Predict
    \/ PredictRaises
    \/ Summary
    \/ SampleStep
    \/ SampleStepRaises
    \/ StartBatch
    \/ BatchStep
    \/ Export

Spec == Init /\ [][Next]_vars

----------------------------------------------------------------------------
(* The helper functions on their own: inputs drawn from bounded sets *)

MaxGenes == 5
MaxProfile == 2

FnCatalog ==
    [cols |-> BothColumns,
     rows |-> <<CatalogRow("g1", Mech_Efflux),
                CatalogRow("g2", Mech_Other),
                CatalogRow("g3", Mech_BetaSymLactamaseCap),
                CatalogRow("g4", Mech_TargetAlteration),
                CatalogRow("g5", Mech_Inactivation),
                CatalogRow("g6", Mech_GeneralEfflux)>>]

\* the row's genes: a prefix of the catalog's, or a list with a gene ("gx") the catalog lacks
FnGenes == <<"g1", "g2", "g3", "g4", "g5", "g6">>
GeneLists ==
    {SubSeq(FnGenes, 1, n) : n \in 0..(IF MaxGenes < Len(FnGenes) THEN MaxGenes ELSE Len(FnGenes))}
        \cup {<<"gx", "g2", "g1">>}
FnValues == {-20, 0, 1, 20, 80, 2496}
\* the rows (as items) over the genes of one list
FnSamples(genes) ==
    { [k \in 1..Len(genes) |-> <<genes[k], vals[k]>>] : vals \in [1..Len(genes) -> FnValues] }

\* profiles handed to interpret directly
Labels == {NonSpecificResistance, Mech_Efflux, Mech_BetaSymLactamase, Mech_BetaSymLactamaseCap,
           Mech_CapBetaLactamase, Mech_BetaLactamaseWord, Mech_TargetAlteration,
           Mech_NonSpecificEfflux}
ProfileValues == {0, DominantMin - 1, DominantMin, 500}
\* the profiles of n mechanisms: a dict has each key once
GivenProfiles(n) ==
    { p \in [1..n -> Labels \X ProfileValues] :
        \A j, k \in 1..n : j # k => p[j][1] # p[k][1] }

FnScores ==
    {-1, 0, ThresholdModerate - 1, ThresholdModerate, ThresholdModerate + 1,
     ThresholdHigh - 1, ThresholdHigh, ThresholdHigh + 1} \X {0, 4, 9996}

FnIdle ==
    /\ model = "model"
    /\ gene_info = [cols |-> FnCatalog.cols, rows |-> Normalise(FnCatalog.rows)]
    /\ uploaded_file = NoTable
    /\ df = NoTable
    /\ scores = <<>>
    /\ i = 0
    /\ all_results = <<>>
    /\ screen = <<>>
    /\ invoked = {}
    /\ prev = <<>>
    /\ category = None
    /\ interpretation = None

FnInit ==
    /\ FnIdle
    /\ \/ /\ pc = "classify"
          /\ score \in FnScores
          /\ sample = <<>>
          /\ mech_profile = <<>>
       \/ /\ pc = "aggregate"
          /\ score = <<0, 0>>
          /\ \E genes \in GeneLists : sample \in FnSamples(genes)
          /\ mech_profile = <<>>
       \/ /\ pc = "interpret"
          /\ score = <<0, 0>>
          /\ sample = <<>>
          /\ \E n \in 0..MaxProfile : mech_profile \in GivenProfiles(n)

\* category = risk_category(score)
Classify ==
    /\ pc = "classify"
    /\ category' = risk_category(score)
    /\ pc' = "classified"
    /\ UNCHANGED <<runVars, score, prev, sample, mech_profile, interpretation>>

\* a further call, the preceding one remembered
ClassifyAgain ==
    /\ pc = "classified"
    /\ prev' = <<[score |-> score, category |-> category]>>
    /\ score' \in FnScores
    /\ category' = risk_category(score')
    /\ UNCHANGED <<pc, runVars, sample, mech_profile, interpretation>>

\* mech_profile = compute_sample_mechanisms(sample)
Aggregate ==
    /\ pc = "aggregate"
    /\ mech_profile' = compute_sample_mechanisms(sample)
    /\ pc' = "aggregated"
    /\ UNCHANGED <<runVars, score, prev, category, sample, interpretation>>

\* interpretation = interpret(mech_profile)
Interpret ==
    /\ pc \in {"aggregated", "interpret"}
    /\ interpretation' = interpret(mech_profile)
    /\ pc' = IF pc = "aggregated" THEN "interpreted_sample" ELSE "interpreted"
    /\ UNCHANGED <<runVars, score, prev, category, sample, mech_profile>>

FnNext ==
    \/ Classify
    \/ ClassifyAgain
    \/ Aggregate
    \/ Interpret

FnSpec == FnInit /\ [][FnNext]_vars

----------------------------------------------------------------------------
(* Properties *)

IsTable(t) == "columns" \in DOMAIN t

ResultKinds == {"success", "metrics", "sample", "json", "batch"}

NoResultsEmitted == \A k \in 1..Len(screen) : screen[k].kind \notin ResultKinds

\* C1: an upload that lacks a required gene is never scaled or scored: once it
\* is read, the run is at the missing-gene check or stopped by it after the
\* "Missing required genes" error, scaler.transform and model.predict have not
\* been called, and no score, summary or per-sample result exists.
C1_MissingGeneStops ==
    (IsTable(uploaded_file) /\ Missing(uploaded_file) # {}) =>
        /\ pc \in {"validate", "stopped"}
        /\ invoked = {}
        /\ scores = <<>>
        /\ all_results = <<>>
        /\ NoResultsEmitted
        /\ pc = "stopped" =>
              /\ screen[1] = [kind |-> "error",
                              data |-> <<"Missing required genes",
                                         Cardinality(Missing(uploaded_file))>>]
              /\ screen[2] = [kind |-> "info", data |-> Missing(uploaded_file)]

\* the scenario: the catalog requires g1 and g2, the upload lacks g2, the run stopped
C1_Witness ==
    /\ pc = "stopped"
    /\ IsTable(uploaded_file)
    /\ TOP_GENES = <<"g1", "g2">>
    /\ Missing(uploaded_file) = {"g2"}

ScoreLE(a, b) == a[1] < b[1] \/ (a[1] = b[1] /\ a[2] <= b[2])

Rank(c) == CASE c = "Low" -> 1 [] c = "Moderate" -> 2 [] c = "High" -> 3

\* C2: risk_category is Low below 3,000,000, Moderate from 3,000,000 to below
\* 5,000,000 and High from 5,000,000 on: one category per score, non-decreasing
\* in the score, the two boundary values falling in the upper band.
C2_RiskCategoryBands ==
    pc = "classified" =>
        /\ category \in {"Low", "Moderate", "High"}
        /\ category = "Low" <=> score[1] < ThresholdModerate
        /\ category = "Moderate" <=>
              (ThresholdModerate <= score[1] /\ score[1] < ThresholdHigh)
        /\ category = "High" <=> ThresholdHigh <= score[1]
        /\ score = <<ThresholdModerate, 0>> => category = "Moderate"
        /\ score = <<ThresholdHigh, 0>> => category = "High"
        /\ \A k \in 1..Len(prev) :
              /\ ScoreLE(prev[k].score, score) => Rank(prev[k].category) <= Rank(category)
              /\ ScoreLE(score, prev[k].score) => Rank(category) <= Rank(prev[k].category)

\* a score just below 3,000,000 classified Low, then 3,000,000 itself classified Moderate
C2_Witness ==
    /\ pc = "classified"
    /\ prev = <<[score |-> <<ThresholdModerate - 1, 9996>>, category |-> "Low"]>>
    /\ score = <<ThresholdModerate, 0>>
    /\ category = "Moderate"

AllZero(items) == \A k \in 1..Len(items) : items[k][2] = 0

\* C3: for an all-zero row every mechanism of the profile is 0 and interpret
\* returns "No significant resistance mechanisms detected".
C3_AllZeroRowNoSignificant ==
    (pc = "interpreted_sample" /\ AllZero(sample)) =>
        /\ \A k \in 1..Len(mech_profile) : mech_profile[k][2] = 0
        /\ interpretation = MsgNone

NonNegative(items) == \A k \in 1..Len(items) : items[k][2] >= 0

Abs(x) == IF x < 0 THEN -x ELSE x

Aggregated == pc \in {"aggregated", "interpreted_sample"}

\* C4 as stated: for non-negative abundances with a positive total the
\* proportions sum to within 0.0015 of 1, whatever the number of buckets.
C4_SumWithinThreeHalfThousandths ==
    (Aggregated /\ NonNegative(sample) /\ SumValues(sample) > 0) =>
        2 * Abs(SumValues(mech_profile) - 1000) <= 3

\* C4 amended: the proportions sum to within 0.0005 per bucket of 1, that is
\* within 0.0005 * n for a profile of n mechanisms (0.0015 for up to three).
C4_SumWithinHalfThousandthPerBucket ==
    (Aggregated /\ NonNegative(sample) /\ SumValues(sample) > 0) =>
        2 * Abs(SumValues(mech_profile) - 1000) <= Len(mech_profile)

\* five buckets, four of them 1 / 2500 of the total: the proportions sum to 0.998
C4_Witness ==
    /\ pc = "aggregated"
    /\ NonNegative(sample)
    /\ SumValues(sample) = 2500
    /\ Len(mech_profile) = 5
    /\ SumValues(mech_profile) = 998

\* the rule chain as C5 states it: every label test made on the lower-cased label
ClaimedInterpretation(profile) ==
    IF profile = <<>> THEN MsgNone
    ELSE LET label == Lower(profile[Dominant(profile)][1])
         IN  IF profile[Dominant(profile)][2] < DominantMin THEN MsgMultiple
             ELSE IF Contains(Lower(Word_nonspecific), label) THEN MsgNonSpecific
             ELSE IF \/ Contains(Lower(Sub_betaSymLactamase), label)
                     \/ Contains(Lower(Sub_betaLactamase), label) THEN MsgBetaLactamase
             ELSE IF Contains(Lower(Sub_efflux), label) THEN MsgEfflux
             ELSE MsgMixed

\* C5: interpret is the priority-ordered rule chain on the first mechanism of
\* maximal proportion, with every label test case-insensitive.
C5_RuleChainCaseInsensitive ==
    pc \in {"interpreted", "interpreted_sample"} =>
        interpretation = ClaimedInterpretation(mech_profile)

\* the canonical mechanism of a gene: the catalog's, else the fallback label
Canonical(gene) ==
    IF \E k \in 1..Len(gene_info.rows) : gene_info.rows[k].AMR_Gene = gene
    THEN LET last == CHOOSE k \in 1..Len(gene_info.rows) :
                        /\ gene_info.rows[k].AMR_Gene = gene
                        /\ \A j \in (k + 1)..Len(gene_info.rows) :
                              gene_info.rows[j].AMR_Gene # gene
         IN  gene_info.rows[last].Resistance_Mechanism
    ELSE NonSpecificResistance

RECURSIVE BucketSum(_, _)
BucketSum(items, mech) ==
    IF items = <<>> THEN 0
    ELSE (IF Canonical(items[1][1]) = mech THEN items[1][2] ELSE 0)
         + BucketSum(Tail(items), mech)

\* C6: the profile's keys are exactly the canonical mechanisms of the row's
\* genes (a gene outside the catalog under "Non-Specific Resistance"); with a
\* positive total each value is the mechanism's share of the total to the
\* nearest thousandth, within [0, 1] for non-negative abundances; and
\* g1 = 80 (Efflux), g2 = 20 (Other) give {Efflux: 0.8, Non-Specific Resistance: 0.2}.
C6_ProfileIsRoundedShare ==
    Aggregated =>
        LET total == SumValues(sample)
        IN  /\ Keys(mech_profile) = {Canonical(sample[k][1]) : k \in 1..Len(sample)}
            /\ Len(mech_profile) = Cardinality(Keys(mech_profile))
            /\ total > 0 =>
                  \A k \in 1..Len(mech_profile) :
                     2 * Abs(1000 * BucketSum(sample, mech_profile[k][1])
                             - mech_profile[k][2] * total) <= total
            /\ (total > 0 /\ NonNegative(sample)) =>
                  \A k \in 1..Len(mech_profile) :
                     0 <= mech_profile[k][2] /\ mech_profile[k][2] <= 1000
            /\ sample = << <<"g1", 80>>, <<"g2", 20>> >> =>
                  mech_profile = << <<Mech_Efflux, 800>>, <<NonSpecificResistance, 200>> >>

\* the scenario row, aggregated
C6_Witness ==
    /\ pc = "aggregated"
    /\ sample = << <<"g1", 80>>, <<"g2", 20>> >>
    /\ mech_profile = << <<Mech_Efflux, 800>>, <<NonSpecificResistance, 200>> >>

\* C7: a catalog that loaded has no gene id twice in TOP_GENES (a source with a
\* duplicate gene id fails to load).
C7_LoadedCatalogHasUniqueGenes ==
    (model # None /\ "AMR_Gene" \in gene_info.cols) =>
        Cardinality(TopGeneSet) = Len(TOP_GENES)

\* C8: after a failed asset load the run shows the load error and stops: it
\* never reaches the upload section, reads no table, calls neither the scaler
\* nor the model and produces no score or result.
C8_LoadFailureStops ==
    (pc # "load" /\ model = None) =>
        /\ pc \in {"check_model", "stopped"}
        /\ Len(screen) = 1
        /\ screen[1].kind = "error"
        /\ screen[1].data[1] = "Error loading model assets"
        /\ uploaded_file = NoTable
        /\ df = NoTable
        /\ invoked = {}
        /\ scores = <<>>
        /\ all_results = <<>>

\* the catalog lacks its mechanism column: load_assets failed and the run stopped
C8_Witness ==
    /\ pc = "stopped"
    /\ model = None
    /\ screen = <<[kind |-> "error",
                   data |-> <<"Error loading model assets", "Resistance_Mechanism">>]>>

UniqueCatalog ==
    /\ model # None
    /\ "AMR_Gene" \in gene_info.cols
    /\ Cardinality(TopGeneSet) = Len(TOP_GENES)

\* C9: a run that ended in "Error processing file" has emitted no success
\* summary and no per-sample or batch result (stated for the runs whose catalog
\* has no gene id twice, so that a failure does not rest on such a catalog).
C9_ErrorMeansNoPartialResults ==
    (pc = "error" /\ UniqueCatalog) => NoResultsEmitted

\* the category the thresholds give to a record's rounded AMR_Risk_Score
CategoryOfRecorded(rounded) == risk_category(<<rounded[1], rounded[2] * (FracUnits \div 1000)>>)

RecordConsistent(rec) == rec.Risk_Category = CategoryOfRecorded(rec.AMR_Risk_Score)

\* C10: in every emitted record (per-sample JSON, batch export) Risk_Category
\* is the threshold classification of the record's own AMR_Risk_Score (stated
\* for the runs whose catalog has no gene id twice).
C10_CategoryMatchesRecordedScore ==
    UniqueCatalog => \A k \in 1..Len(screen) :
        /\ screen[k].kind = "json" => RecordConsistent(screen[k].data)
        /\ screen[k].kind = "batch" =>
              \A r \in 1..Len(screen[k].data) : RecordConsistent(screen[k].data[r])

====
